---- MODULE Spec2Model ----
(***************************************************************************)
(* listlib: a type-erased dynamic array (src/unnamed/part_000 is list.c,   *)
(* src/include/list.h its interface).  The model keeps the four fields of  *)
(* struct list, the bytes of the block that `data` points to, and, for the *)
(* last call made on the list, its name, its returned status and the       *)
(* contents of the caller's result buffer.  Each function of list.c is an  *)
(* operator from the struct and the arguments to the status and the new    *)
(* struct; each action is one call.  Spec makes every call in any order,   *)
(* SpecPush pushes and gets only, SpecGrow pushes only, on a larger heap,  *)
(* SpecLife every call but the initialisers, SpecInit the initialisers on  *)
(* a list in use, SpecWide calls on elements half as wide as size_t goes.  *)
(***************************************************************************)
EXTENDS Integers, Sequences, FiniteSets, TLC

\* ------------------------------------------------------------------ bounds

\* The largest block, in bytes, the allocator hands out under Spec.
MaxHeapBytes == 8
\* The largest block, in bytes, the allocator hands out under SpecGrow.
GrowHeapBytes == 16
\* The most elements pushed under SpecGrow.
GrowPushes == 10
\* Element widths passed to the initialisers range over 0..MaxElemSize.
MaxElemSize == 2
\* Capacities passed to list_init_with_capacity range over 0..MaxInitCapacity.
MaxInitCapacity == 3
\* size_t is SizeBits wide.
SizeBits == 8

SizeMod == 2 ^ SizeBits

\* Byte values: the code only copies and zeroes bytes, so zero / non-zero
\* is all that can be told apart.
Byte == {0, 1}

ElemSizes == 1..MaxElemSize

\* The byte blocks of `es` bytes a caller can pass.
Values(es) == [1..es -> Byte]

\* Indexes a caller passes to get/set on a list of n elements: every live
\* index, n itself and one beyond it.
Indexes(n) == 0..(n + 1)

NULL == "nullptr"
\* data, when it points to the block the list owns.
BLOCK == "block"
\* The address of the caller's struct list, and of its result buffer.
LST == "lst"
OUT == "out_value"

LIST_OK == "LIST_OK"
LIST_ERR_ALLOC == "LIST_ERR_ALLOC"
LIST_ERR_INVALID == "LIST_ERR_INVALID"
LIST_OUT_OF_BOUNDS == "LIST_OUT_OF_BOUNDS"
\* A call that returns void.
VOID == "void"
\* The call dereferenced a null pointer: the process is gone.
CRASH == "crash"
\* The call wrote outside the block it had been given: undefined behaviour,
\* after which nothing is known of the heap.
OVERRUN == "overrun"

\* The caller's result buffer when the call wrote nothing to it.
Untouched == <<>>
\* No value block was passed.
NoValue == <<>>

VARIABLES
    data,        \* lst->data: NULL or BLOCK (the one block the list owns)
    mem,         \* the bytes of the block data points to, <<>> when NULL
    size,        \* lst->size
    capacity,    \* lst->capacity
    elem_size,   \* lst->elem_size
    op,          \* the last call
    status,      \* what it returned
    out,         \* the caller's out_value buffer after it
    arg,         \* the value block passed to it, when it was a push
    pre_size,    \* lst->size when it was called
    pre_capacity, \* lst->capacity when it was called
    items,       \* the element values the calls so far should have left in
                 \* the list, oldest first (a reference sequence)
    heap_max,    \* the largest block, in bytes, the allocator hands out
    allocs,      \* the blocks the allocator handed out during the last call
    frees        \* the blocks it took back during the last call

vars == <<data, mem, size, capacity, elem_size, op, status, out, arg,
          pre_size, pre_capacity, items, heap_max, allocs, frees>>

\* struct list as a call finds it: a record of its fields, with the bytes
\* behind data and the allocator's tally for the call, which the call
\* starts at zero: the blocks handed out (calloc, realloc) and the blocks
\* taken back (free, realloc of a block).
lst == [data |-> data, mem |-> mem, size |-> size, capacity |-> capacity,
        elem_size |-> elem_size, allocs |-> 0, frees |-> 0]

\* free(p) takes a block back unless p is null.
Freed(p) == IF p = NULL THEN 0 ELSE 1

\* ------------------------------------------------------------ C library

SizeT(x) == x % SizeMod

\* The bytes realloc leaves indeterminate when it grows a block of `oldlen`
\* bytes to `n` bytes.
Indeterminate(oldlen, n) ==
    [1..(IF n > oldlen /\ n <= heap_max THEN n - oldlen ELSE 0) -> Byte]

\* calloc(n, m): a zero-filled block of n*m bytes, or NULL.
calloc(n, m, ok) ==
    IF ok /\ n * m <= heap_max
    THEN [ptr |-> BLOCK, mem |-> [i \in 1..(n * m) |-> 0]]
    ELSE [ptr |-> NULL, mem |-> <<>>]

\* realloc(p, n), `old` the bytes of p's block (<<>> for a null p): a block
\* of n bytes that keeps the old bytes up to the smaller length, the rest
\* indeterminate (junk), the old block taken back; or NULL, the old block
\* untouched.  A request of 0
\* bytes is refused here: list_resize asks for new_capacity * elem_size
\* with both >= 1, which is 0 only if the product wraps around SizeMod to
\* exactly 0, and no capacity and element width of the specifications below
\* make it do so.
realloc(old, n, ok, junk) ==
    IF ok /\ n > 0 /\ n <= heap_max
    THEN [ptr |-> BLOCK,
          mem |-> [i \in 1..n |-> IF i <= Len(old) THEN old[i]
                                  ELSE junk[i - Len(old)]]]
    ELSE [ptr |-> NULL, mem |-> old]

\* memset(p + off, c, n)
memset(m, off, c, n) ==
    [i \in 1..Len(m) |-> IF off < i /\ i <= off + n THEN c ELSE m[i]]

\* memcpy(p + off, src, Len(src))
memcpy_to(m, off, src) ==
    [i \in 1..Len(m) |-> IF off < i /\ i <= off + Len(src) THEN src[i - off]
                         ELSE m[i]]

\* the n bytes memcpy(dst, p + off, n) reads
memcpy_from(m, off, n) == [i \in 1..n |-> m[off + i]]

\* ------------------------------------------------------------- list.c

\* What a call returns and leaves behind: the status, the list, and the
\* caller's result buffer.
Ret(st, l) == [st |-> st, l |-> l, out |-> Untouched]
RetOut(st, l, o) == [st |-> st, l |-> l, out |-> o]

\* In each function p is the pointer passed as lst (NULL or LST) and l the
\* struct it points to when it is not null.

\* list_init_with_capacity with the reset of size forgotten.
list_init_with_capacity_keeps_size(p, l, cap, es, ok) ==
    IF p = NULL \/ es = 0 THEN Ret(LIST_ERR_INVALID, l)
    ELSE LET l0 == [data |-> NULL, mem |-> <<>>, size |-> l.size, capacity |-> 0,
                    elem_size |-> es, allocs |-> l.allocs, frees |-> l.frees]
             c  == calloc(cap, es, ok)
         IN  IF cap = 0 THEN Ret(LIST_OK, l0)
             ELSE IF c.ptr = NULL THEN Ret(LIST_ERR_ALLOC, l0)
             ELSE Ret(LIST_OK, [l0 EXCEPT !.data = c.ptr, !.mem = c.mem,
                                          !.capacity = cap,
                                          !.allocs = @ + 1])

\* list_init_with_capacity assigning the capacity before the allocation is
\* known to have succeeded.
list_init_with_capacity_early_capacity(p, l, cap, es, ok) ==
    IF p = NULL \/ es = 0 THEN Ret(LIST_ERR_INVALID, l)
    ELSE LET l0 == [data |-> NULL, mem |-> <<>>, size |-> 0, capacity |-> cap,
                    elem_size |-> es, allocs |-> l.allocs, frees |-> l.frees]
             c  == calloc(cap, es, ok)
         IN  IF cap = 0 THEN Ret(LIST_OK, l0)
             ELSE IF c.ptr = NULL THEN Ret(LIST_ERR_ALLOC, l0)
             ELSE Ret(LIST_OK, [l0 EXCEPT !.data = c.ptr, !.mem = c.mem,
                                          !.allocs = @ + 1])

list_init_with_capacity(p, l, cap, es, ok) ==
    IF p = NULL \/ es = 0 THEN Ret(LIST_ERR_INVALID, l)
    ELSE LET l0 == [data |-> NULL, mem |-> <<>>, size |-> 0, capacity |-> 0,
                    elem_size |-> es, allocs |-> l.allocs, frees |-> l.frees]
             c  == calloc(cap, es, ok)
         IN  IF cap = 0 THEN Ret(LIST_OK, l0)
             ELSE IF c.ptr = NULL THEN Ret(LIST_ERR_ALLOC, l0)
             ELSE Ret(LIST_OK, [l0 EXCEPT !.data = c.ptr, !.mem = c.mem,
                                          !.capacity = cap,
                                          !.allocs = @ + 1])

list_init(p, l, es) == list_init_with_capacity(p, l, 0, es, TRUE)

\* list_destroy with the capacity reset forgotten.
list_destroy_keeps_capacity(p, l) ==
    IF p = NULL THEN Ret(VOID, l)
    ELSE Ret(VOID, [l EXCEPT !.data = NULL, !.mem = <<>>, !.size = 0,
                             !.frees = @ + Freed(l.data)])

\* list_destroy leaving lst->data pointing to the block it has freed.
list_destroy_keeps_data(p, l) ==
    IF p = NULL THEN Ret(VOID, l)
    ELSE Ret(VOID, [l EXCEPT !.size = 0, !.capacity = 0,
                             !.frees = @ + Freed(l.data)])

list_destroy(p, l) ==
    IF p = NULL THEN Ret(VOID, l)
    ELSE Ret(VOID, [l EXCEPT !.data = NULL, !.mem = <<>>, !.size = 0,
                             !.capacity = 0,
                             !.frees = @ + Freed(l.data)])

\* list_resize assigning realloc's result straight to lst->data.
list_resize_overwrites_data(l, new_capacity, ok, junk) ==
    IF new_capacity = 0 THEN Ret(LIST_ERR_INVALID, l)
    ELSE IF new_capacity = l.capacity THEN Ret(LIST_OK, l)
    ELSE LET r == realloc(l.mem, SizeT(new_capacity * l.elem_size), ok, junk)
             m == IF new_capacity > l.capacity
                  THEN memset(r.mem, SizeT(l.capacity * l.elem_size), 0,
                              SizeT((new_capacity - l.capacity) * l.elem_size))
                  ELSE r.mem
         IN  IF r.ptr = NULL
             THEN Ret(LIST_ERR_ALLOC, [l EXCEPT !.data = NULL, !.mem = <<>>])
             ELSE Ret(LIST_OK,
                      [l EXCEPT !.data = r.ptr, !.mem = m,
                                !.capacity = new_capacity,
                                !.size = IF @ > new_capacity
                                         THEN new_capacity ELSE @,
                                !.allocs = @ + 1,
                                !.frees = @ + Freed(l.data)])

\* list_resize with the zeroing of the new section forgotten.
list_resize_no_memset(l, new_capacity, ok, junk) ==
    IF new_capacity = 0 THEN Ret(LIST_ERR_INVALID, l)
    ELSE IF new_capacity = l.capacity THEN Ret(LIST_OK, l)
    ELSE LET r == realloc(l.mem, SizeT(new_capacity * l.elem_size), ok, junk)
         IN  IF r.ptr = NULL THEN Ret(LIST_ERR_ALLOC, l)
             ELSE Ret(LIST_OK,
                      [l EXCEPT !.data = r.ptr, !.mem = r.mem,
                                !.capacity = new_capacity,
                                !.size = IF @ > new_capacity
                                         THEN new_capacity ELSE @,
                                !.allocs = @ + 1,
                                !.frees = @ + Freed(l.data)])

\* list_resize zeroing from the old capacity taken as a byte offset.
list_resize_memset_unscaled(l, new_capacity, ok, junk) ==
    IF new_capacity = 0 THEN Ret(LIST_ERR_INVALID, l)
    ELSE IF new_capacity = l.capacity THEN Ret(LIST_OK, l)
    ELSE LET r == realloc(l.mem, SizeT(new_capacity * l.elem_size), ok, junk)
             m == IF new_capacity > l.capacity
                  THEN memset(r.mem, l.capacity, 0,
                              SizeT((new_capacity - l.capacity) * l.elem_size))
                  ELSE r.mem
         IN  IF r.ptr = NULL THEN Ret(LIST_ERR_ALLOC, l)
             ELSE Ret(LIST_OK,
                      [l EXCEPT !.data = r.ptr, !.mem = m,
                                !.capacity = new_capacity,
                                !.size = IF @ > new_capacity
                                         THEN new_capacity ELSE @,
                                !.allocs = @ + 1,
                                !.frees = @ + Freed(l.data)])

\* The byte range [off, off + n) lies inside the block of bytes m.
InBlock(m, off, n) == off + n <= Len(m)

list_resize(l, new_capacity, ok, junk) ==
    IF new_capacity = 0 THEN Ret(LIST_ERR_INVALID, l)
    ELSE IF new_capacity = l.capacity THEN Ret(LIST_OK, l)
    ELSE LET r == realloc(l.mem, SizeT(new_capacity * l.elem_size), ok, junk)
             m == IF new_capacity > l.capacity
                  THEN memset(r.mem, SizeT(l.capacity * l.elem_size), 0,
                              SizeT((new_capacity - l.capacity) * l.elem_size))
                  ELSE r.mem
         IN  IF r.ptr = NULL THEN Ret(LIST_ERR_ALLOC, l)
             ELSE IF /\ new_capacity > l.capacity
                     /\ ~InBlock(r.mem, SizeT(l.capacity * l.elem_size),
                                 SizeT((new_capacity - l.capacity) * l.elem_size))
                  THEN Ret(OVERRUN, l)
             ELSE Ret(LIST_OK,
                      [l EXCEPT !.data = r.ptr, !.mem = m,
                                !.capacity = new_capacity,
                                !.size = IF @ > new_capacity
                                         THEN new_capacity ELSE @,
                                !.allocs = @ + 1,
                                !.frees = @ + Freed(l.data)])

\* list_grow adding one slot instead of doubling.
list_grow_by_one(l, ok, junk) ==
    list_resize(l, SizeT(l.capacity + 1), ok, junk)

\* The capacity list_grow asks for.
GrowCapacity(l) == IF l.capacity = 0 THEN 1 ELSE SizeT(l.capacity * 2)

list_grow(l, ok, junk) == list_resize(l, GrowCapacity(l), ok, junk)

\* The fresh bytes list_grow's realloc may hand out, when push calls it.
GrowJunk(l) ==
    IF l.size >= l.capacity
    THEN Indeterminate(Len(l.mem), SizeT(GrowCapacity(l) * l.elem_size))
    ELSE {<<>>}

\* list_push with the slot offset not scaled by elem_size.
list_push_unscaled(p, l, value, ok, junk) ==
    IF p = NULL \/ value = NoValue THEN Ret(LIST_ERR_INVALID, l)
    ELSE LET g == IF l.size >= l.capacity THEN list_grow(l, ok, junk)
                  ELSE Ret(LIST_OK, l)
         IN  IF g.st # LIST_OK THEN Ret(g.st, g.l)
             ELSE Ret(LIST_OK,
                      [g.l EXCEPT !.mem = memcpy_to(@, g.l.size, value),
                                  !.size = @ + 1])

list_push(p, l, value, ok, junk) ==
    IF p = NULL \/ value = NoValue THEN Ret(LIST_ERR_INVALID, l)
    ELSE LET g == IF l.size >= l.capacity THEN list_grow(l, ok, junk)
                  ELSE Ret(LIST_OK, l)
         IN  IF g.st # LIST_OK THEN Ret(g.st, g.l)
             ELSE Ret(LIST_OK,
                      [g.l EXCEPT !.mem = memcpy_to(@, SizeT(g.l.size * g.l.elem_size), value),
                                  !.size = @ + 1])

\* The shrink test taken at half the capacity.
ShrinkNeededAtHalf(l) == l.capacity > 1 /\ l.size < l.capacity \div 2

\* The shrink test taken as soon as half the capacity is enough.
ShrinkNeededWhenHalfFits(l) == l.capacity > 1 /\ l.size <= l.capacity \div 2

\* The shrink test with the division applied to the wrong operand.
ShrinkNeededWrongOperand(l) == l.capacity > 1 /\ l.size \div 4 < l.capacity

\* The shrink test of list_pop, on the list after the decrement.
ShrinkNeeded(l) == l.capacity > 1 /\ l.size < l.capacity \div 4

ShrinkCapacity(l) ==
    IF l.capacity \div 2 < 1 THEN 1 ELSE l.capacity \div 2

\* list_pop undoing the decrement when the shrink fails.
list_pop_rollback(p, l, out_value, ok) ==
    IF p = NULL THEN Ret(CRASH, l)
    ELSE IF l.data = NULL \/ l.size = 0 THEN Ret(LIST_ERR_INVALID, l)
    ELSE LET l1 == [l EXCEPT !.size = @ - 1]
             o  == IF out_value # NULL
                   THEN memcpy_from(l1.mem, SizeT(l1.size * l1.elem_size), l1.elem_size)
                   ELSE Untouched
             r  == IF l1.capacity > 1 /\ l1.size < l1.capacity \div 4
                   THEN list_resize(l1, l1.capacity \div 2, ok, <<>>)
                   ELSE Ret(LIST_OK, l1)
         IN  IF r.st = LIST_OK THEN RetOut(r.st, r.l, o) ELSE RetOut(r.st, l, o)

\* list_pop taking an empty list for a success with nothing to do.
list_pop_empty_ok(p, l, out_value, ok) ==
    IF p = NULL THEN Ret(CRASH, l)
    ELSE IF l.data = NULL \/ l.size = 0 THEN Ret(LIST_OK, l)
    ELSE LET l1 == [l EXCEPT !.size = @ - 1]
             o  == IF out_value # NULL
                   THEN memcpy_from(l1.mem, SizeT(l1.size * l1.elem_size), l1.elem_size)
                   ELSE Untouched
             r  == IF l1.capacity > 1 /\ l1.size < l1.capacity \div 4
                   THEN list_resize(l1, l1.capacity \div 2, ok, <<>>)
                   ELSE Ret(LIST_OK, l1)
         IN  RetOut(r.st, r.l, o)

\* list_pop copying out the first element instead of the last.
list_pop_first(p, l, out_value, ok) ==
    IF p = NULL THEN Ret(CRASH, l)
    ELSE IF l.data = NULL \/ l.size = 0 THEN Ret(LIST_ERR_INVALID, l)
    ELSE LET l1 == [l EXCEPT !.size = @ - 1]
             o  == IF out_value # NULL
                   THEN memcpy_from(l1.mem, 0, l1.elem_size)
                   ELSE Untouched
             r  == IF l1.capacity > 1 /\ l1.size < l1.capacity \div 4
                   THEN list_resize(l1, l1.capacity \div 2, ok, <<>>)
                   ELSE Ret(LIST_OK, l1)
         IN  RetOut(r.st, r.l, o)

list_pop(p, l, out_value, ok) ==
    IF p = NULL THEN Ret(CRASH, l)
    ELSE IF l.data = NULL \/ l.size = 0 THEN Ret(LIST_ERR_INVALID, l)
    ELSE LET l1 == [l EXCEPT !.size = @ - 1]
             o  == IF out_value # NULL
                   THEN memcpy_from(l1.mem, SizeT(l1.size * l1.elem_size), l1.elem_size)
                   ELSE Untouched
             r  == IF ShrinkNeeded(l1)
                   THEN list_resize(l1, ShrinkCapacity(l1), ok, <<>>)
                   ELSE Ret(LIST_OK, l1)
         IN  RetOut(r.st, r.l, o)

\* list_get with the slot offset not scaled by elem_size.
list_get_unscaled(p, l, index, out_value) ==
    IF p = NULL THEN Ret(LIST_ERR_INVALID, l)
    ELSE IF l.data = NULL \/ out_value = NULL THEN Ret(LIST_ERR_INVALID, l)
    ELSE IF index >= l.size THEN Ret(LIST_OUT_OF_BOUNDS, l)
    ELSE RetOut(LIST_OK, l, memcpy_from(l.mem, index, l.elem_size))

\* list_get with the bounds test off by one.
list_get_off_by_one(p, l, index, out_value) ==
    IF p = NULL THEN Ret(LIST_ERR_INVALID, l)
    ELSE IF l.data = NULL \/ out_value = NULL THEN Ret(LIST_ERR_INVALID, l)
    ELSE IF index > l.size THEN Ret(LIST_OUT_OF_BOUNDS, l)
    ELSE RetOut(LIST_OK, l,
                memcpy_from(l.mem, SizeT(index * l.elem_size), l.elem_size))

list_get(p, l, index, out_value) ==
    IF p = NULL THEN Ret(LIST_ERR_INVALID, l)
    ELSE IF l.data = NULL \/ out_value = NULL THEN Ret(LIST_ERR_INVALID, l)
    ELSE IF index >= l.size THEN Ret(LIST_OUT_OF_BOUNDS, l)
    ELSE RetOut(LIST_OK, l,
                memcpy_from(l.mem, SizeT(index * l.elem_size), l.elem_size))

list_peek(p, l, out_value) ==
    IF p = NULL THEN Ret(CRASH, l)
    ELSE IF l.data = NULL \/ l.size = 0 \/ out_value = NULL
         THEN Ret(LIST_ERR_INVALID, l)
    ELSE list_get(p, l, l.size - 1, out_value)

\* list_set testing the index against the capacity and extending the list
\* to reach it.
list_set_extends(p, l, index, value) ==
    IF p = NULL THEN Ret(LIST_ERR_INVALID, l)
    ELSE IF l.data = NULL THEN Ret(LIST_ERR_INVALID, l)
    ELSE IF index >= l.capacity THEN Ret(LIST_OUT_OF_BOUNDS, l)
    ELSE IF value = NoValue THEN Ret(CRASH, l)
    ELSE Ret(LIST_OK,
             [l EXCEPT !.mem = memcpy_to(@, SizeT(index * l.elem_size), value),
                       !.size = IF index >= @ THEN index + 1 ELSE @])

list_set(p, l, index, value) ==
    IF p = NULL THEN Ret(LIST_ERR_INVALID, l)
    ELSE IF l.data = NULL THEN Ret(LIST_ERR_INVALID, l)
    ELSE IF index >= l.size THEN Ret(LIST_OUT_OF_BOUNDS, l)
    ELSE IF value = NoValue THEN Ret(CRASH, l)
    ELSE Ret(LIST_OK,
             [l EXCEPT !.mem = memcpy_to(@, SizeT(index * l.elem_size), value)])

\* list_clear zeroing the elements it removes.
list_clear_zeroes(p, l) ==
    IF p = NULL THEN Ret(VOID, l)
    ELSE Ret(VOID, [l EXCEPT !.size = 0,
                             !.mem = memset(@, 0, 0, SizeT(l.size * l.elem_size))])

list_clear(p, l) ==
    IF p = NULL THEN Ret(VOID, l) ELSE Ret(VOID, [l EXCEPT !.size = 0])

\* The accessors return a number, not a status.
list_size(p, l) == IF p # NULL THEN l.size ELSE 0

list_capacity(p, l) == IF p # NULL THEN l.capacity ELSE 0

\* ------------------------------------------------------------- the calls

\* The reference sequence after a call: append on a push that returned
\* LIST_OK, remove-last on a pop that removed, update on a set that
\* returned LIST_OK, empty after clear, destroy and an initialiser that
\* got as far as resetting the fields.
Front(s) == SubSeq(s, 1, Len(s) - 1)

\* A call's effect on the state: r is what the function returned, value the
\* pushed block (NoValue for the other calls), seq the reference sequence.
Call(name, r, value, seq) ==
    /\ data' = r.l.data
    /\ mem' = r.l.mem
    /\ size' = r.l.size
    /\ capacity' = r.l.capacity
    /\ elem_size' = r.l.elem_size
    /\ op' = name
    /\ status' = r.st
    /\ out' = r.out
    /\ arg' = value
    /\ pre_size' = size
    /\ pre_capacity' = capacity
    /\ items' = seq
    /\ heap_max' = heap_max
    /\ allocs' = r.l.allocs
    /\ frees' = r.l.frees

\* No call is made after the process has crashed, and none is followed
\* after undefined behaviour.
Running == status \notin {CRASH, OVERRUN}

OutPointers == {NULL, OUT}

ValueArgs == Values(elem_size) \cup {NoValue}

InitCall(es) ==
    /\ Running
    /\ \E r \in {list_init(LST, lst, es)} :
         Call("init", r, NoValue,
              IF r.st = LIST_ERR_INVALID THEN items ELSE <<>>)

InitWithCapacity(cap, es, ok) ==
    /\ Running
    /\ \E r \in {list_init_with_capacity(LST, lst, cap, es, ok)} :
         Call("init_with_capacity", r, NoValue,
              IF r.st = LIST_ERR_INVALID THEN items ELSE <<>>)

Destroy ==
    /\ Running
    /\ \E r \in {list_destroy(LST, lst)} : Call("destroy", r, NoValue, <<>>)

Push(value, ok) ==
    /\ Running
    /\ \E junk \in GrowJunk(lst) :
         \E r \in {list_push(LST, lst, value, ok, junk)} :
           Call("push", r, value,
                IF r.st = LIST_OK THEN Append(items, value) ELSE items)

Pop(out_value, ok) ==
    /\ Running
    /\ \E r \in {list_pop(LST, lst, out_value, ok)} :
         Call("pop", r, NoValue,
              IF r.st \in {LIST_OK, LIST_ERR_ALLOC} THEN Front(items) ELSE items)

Peek(out_value) ==
    /\ Running
    /\ \E r \in {list_peek(LST, lst, out_value)} :
         Call("peek", r, NoValue, items)

Get(index, out_value) ==
    /\ Running
    /\ \E r \in {list_get(LST, lst, index, out_value)} :
         Call("get", r, NoValue, items)

Set(index, value) ==
    /\ Running
    /\ \E r \in {list_set(LST, lst, index, value)} :
         Call("set", r, NoValue,
              IF r.st = LIST_OK THEN [items EXCEPT ![index + 1] = value]
              ELSE items)

Clear ==
    /\ Running
    /\ \E r \in {list_clear(LST, lst)} : Call("clear", r, NoValue, <<>>)

\* A value block of es bytes.
SomeValue(es) == [i \in 1..es |-> 1]

\* The calls made with a null lst: what else is passed does not reach the
\* list, so one choice of the other arguments stands for all.
NullTarget(name) ==
    /\ Running
    /\ LET v == SomeValue(elem_size)
           c == CASE name = "init" -> list_init(NULL, lst, 1)
                  [] name = "init_with_capacity" ->
                         list_init_with_capacity(NULL, lst, 1, 1, TRUE)
                  [] name = "destroy" -> list_destroy(NULL, lst)
                  [] name = "push" -> list_push(NULL, lst, v, TRUE, <<>>)
                  [] name = "pop" -> list_pop(NULL, lst, OUT, TRUE)
                  [] name = "peek" -> list_peek(NULL, lst, OUT)
                  [] name = "get" -> list_get(NULL, lst, 0, OUT)
                  [] name = "set" -> list_set(NULL, lst, 0, v)
                  [] name = "clear" -> list_clear(NULL, lst)
       IN  \E r \in {c} : Call(name, r, NoValue, items)

Calls == {"init", "init_with_capacity", "destroy", "push", "pop", "peek",
          "get", "set", "clear"}

\* The object as a first initialiser call leaves it, successful or not
\* (both overwrite every field, so what the memory held before is
\* immaterial), with an allocator that hands out at most `heap` bytes.
InitialState(cap, es, ok, heap) ==
    /\ heap_max = heap
    /\ LET r == list_init_with_capacity(LST,
                    [data |-> NULL, mem |-> <<>>, size |-> 0, capacity |-> 0,
                     elem_size |-> 0, allocs |-> 0, frees |-> 0], cap, es, ok)
       IN  /\ data = r.l.data
           /\ mem = r.l.mem
           /\ size = r.l.size
           /\ capacity = r.l.capacity
           /\ elem_size = r.l.elem_size
           /\ op = "init_with_capacity"
           /\ status = r.st
           /\ out = Untouched
           /\ arg = NoValue
           /\ pre_size = 0
           /\ pre_capacity = 0
           /\ items = <<>>
           /\ allocs = r.l.allocs
           /\ frees = r.l.frees

Init ==
    \E cap \in 0..MaxInitCapacity, es \in ElemSizes, ok \in BOOLEAN :
        InitialState(cap, es, ok, MaxHeapBytes)

Next ==
    \/ \E es \in 0..MaxElemSize : InitCall(es)
    \/ \E cap \in 0..MaxInitCapacity, es \in 0..MaxElemSize, ok \in BOOLEAN :
          InitWithCapacity(cap, es, ok)
    \/ Destroy
    \/ \E v \in ValueArgs, ok \in BOOLEAN : Push(v, ok)
    \/ \E o \in OutPointers, ok \in BOOLEAN : Pop(o, ok)
    \/ \E o \in OutPointers : Peek(o)
    \/ \E i \in Indexes(size), o \in OutPointers : Get(i, o)
    \/ \E i \in Indexes(size), v \in ValueArgs : Set(i, v)
    \/ Clear
    \/ \E name \in Calls : NullTarget(name)

Spec == Init /\ [][Next]_vars

\* Pushes and gets only, on a list an initialiser has just initialised.
InitPush ==
    \E cap \in 0..MaxInitCapacity, es \in ElemSizes :
        /\ InitialState(cap, es, TRUE, MaxHeapBytes)
        /\ status = LIST_OK

NextPush ==
    \/ \E v \in Values(elem_size), ok \in BOOLEAN : Push(v, ok)
    \/ \E i \in Indexes(size) : Get(i, OUT)

SpecPush == InitPush /\ [][NextPush]_vars

\* Pushes only, at most GrowPushes of them, on a list of one-byte elements
\* that list_init has just initialised, with the larger heap.
InitGrow == InitialState(0, 1, TRUE, GrowHeapBytes)

NextGrow ==
    \E v \in Values(elem_size), ok \in BOOLEAN :
        /\ size < GrowPushes
        /\ Push(v, ok)

SpecGrow == InitGrow /\ [][NextGrow]_vars

\* One object's life: an initialiser call, then any calls but the
\* initialisers, the destroy calls among them, all on the object itself.
NextLife ==
    \/ Destroy
    \/ \E v \in ValueArgs, ok \in BOOLEAN : Push(v, ok)
    \/ \E o \in OutPointers, ok \in BOOLEAN : Pop(o, ok)
    \/ \E o \in OutPointers : Peek(o)
    \/ \E i \in Indexes(size), o \in OutPointers : Get(i, o)
    \/ \E i \in Indexes(size), v \in ValueArgs : Set(i, v)
    \/ Clear

SpecLife == Init /\ [][NextLife]_vars

\* The initialisers called again on an object in use: pushes and pops fill
\* and empty the list between the initialiser calls and the destroy calls.
NextInit ==
    \/ \E es \in 0..MaxElemSize : InitCall(es)
    \/ \E cap \in 0..MaxInitCapacity, es \in 0..MaxElemSize, ok \in BOOLEAN :
          InitWithCapacity(cap, es, ok)
    \/ Destroy
    \/ \E v \in Values(elem_size), ok \in BOOLEAN : Push(v, ok)
    \/ \E ok \in BOOLEAN : Pop(OUT, ok)

SpecInit == Init /\ [][NextInit]_vars

\* Element widths just below and just above half the range of size_t, where
\* doubling a capacity makes new_capacity * elem_size wrap around.  They are
\* odd, so the product is never 0 and realloc is never asked for 0 bytes.
WideSizes == {SizeMod \div 2 - 1, SizeMod \div 2 + 1}

\* Elements of such a width: all zeros and all ones.
WideValues(es) == {[i \in 1..es |-> b] : b \in Byte}

\* What realloc may leave in the fresh bytes when a push of such an element
\* grows the buffer: all zeros and all ones (list_resize overwrites them).
WideJunk(l) ==
    IF l.size >= l.capacity THEN {[i \in 1..heap_max |-> b] : b \in Byte}
    ELSE {<<>>}

PushWide(value, ok) ==
    /\ Running
    /\ \E junk \in WideJunk(lst) :
         \E r \in {list_push(LST, lst, value, ok, junk)} :
           Call("push", r, value,
                IF r.st = LIST_OK THEN Append(items, value) ELSE items)

\* Lists of wide elements, with an allocator that grants any request a
\* size_t can express.
InitWide ==
    \E cap \in 0..MaxInitCapacity, es \in WideSizes, ok \in BOOLEAN :
        InitialState(cap, es, ok, SizeMod - 1)

NextWide ==
    \/ \E v \in WideValues(elem_size), ok \in BOOLEAN : PushWide(v, ok)
    \/ \E o \in OutPointers, ok \in BOOLEAN : Pop(o, ok)
    \/ \E i \in Indexes(size), o \in OutPointers : Get(i, o)
    \/ \E i \in Indexes(size), v \in WideValues(elem_size) : Set(i, v)

SpecWide == InitWide /\ [][NextWide]_vars

\* ------------------------------------------------------------- claims

\* C1: in every reachable state size <= capacity, and capacity is 0 exactly
\* when no buffer is allocated.
C1_SizeCapacityInvariant ==
    /\ size <= capacity
    /\ (capacity = 0) <=> (data = NULL)

\* A pop has shrunk the buffer of an emptied list and kept it allocated.
C1_Witness ==
    /\ op = "pop"
    /\ status = LIST_OK
    /\ capacity < pre_capacity
    /\ size = 0
    /\ data = BLOCK

\* C2: after any sequence of successful pushes of v0..vn-1 onto a freshly
\* initialised list, get(i) returns LIST_OK and yields vi, for every i < n.
C2_RoundTrip ==
    /\ size = Len(items)
    /\ \A i \in 0..(Len(items) - 1) :
         list_get(LST, lst, i, OUT) = RetOut(LIST_OK, lst, items[i + 1])

\* Four two-byte elements, not all alike, pushed through reallocations and
\* the last one read back.
C2_Witness ==
    /\ op = "get"
    /\ status = LIST_OK
    /\ elem_size = 2
    /\ Len(items) = 4
    /\ items[1] = <<1, 0>>
    /\ items[4] = <<0, 1>>
    /\ out = <<0, 1>>

\* C3: a successful push(v) immediately followed by pop(out) leaves size as
\* it was before the push and sets out to v.
C3_PushPopInverse ==
    [][\A o \in OutPointers, ok \in BOOLEAN :
         (op = "push" /\ status = LIST_OK /\ Pop(o, ok))
             => /\ size' = pre_size
                /\ o # NULL => out' = arg]_vars

\* A pop right after a push, returning the pushed block while shrinking.
C3_Witness ==
    /\ op = "pop"
    /\ status = LIST_OK
    /\ out = <<1>>
    /\ capacity < pre_capacity
    /\ size = 0

\* The smallest power of two >= k.
RECURSIVE PowerOfTwoFrom(_, _)
PowerOfTwoFrom(p, k) == IF p >= k THEN p ELSE PowerOfTwoFrom(2 * p, k)
SmallestPowerOfTwo(k) == PowerOfTwoFrom(1, k)

\* C4: starting from capacity 0, after k >= 1 successful pushes and nothing
\* else the capacity is the smallest power of two >= k.
C4_GrowthDoubling ==
    /\ size = Len(items)
    /\ Len(items) >= 1 => capacity = SmallestPowerOfTwo(Len(items))
    /\ Len(items) = 0 => capacity = 0

\* Ten pushes: size 10, capacity 16.
C4_Witness ==
    /\ op = "push"
    /\ status = LIST_OK
    /\ size = 10
    /\ capacity = 16

\* The status of get and of set, called at index i with a result buffer
\* and with value block v.
GetSetStatus(i, v) ==
    {list_get(LST, lst, i, OUT).st, list_set(LST, lst, i, v).st}

\* C5 as stated: on an initialised list get and set at an index >= size
\* return LIST_OUT_OF_BOUNDS, and at index size - 1 succeed when size > 0.
C5_BoundsAsStated ==
    \A i \in Indexes(size), v \in Values(elem_size) :
        /\ i >= size => GetSetStatus(i, v) = {LIST_OUT_OF_BOUNDS}
        /\ (size > 0 /\ i = size - 1) => GetSetStatus(i, v) = {LIST_OK}

\* C5, amended: once a buffer is allocated get and set at an index >= size
\* return LIST_OUT_OF_BOUNDS; with no buffer allocated they return
\* LIST_ERR_INVALID at every index; at index size - 1 they succeed when
\* size > 0.
C5_Bounds ==
    \A i \in Indexes(size), v \in Values(elem_size) :
        /\ (data # NULL /\ i >= size) => GetSetStatus(i, v) = {LIST_OUT_OF_BOUNDS}
        /\ data = NULL => GetSetStatus(i, v) = {LIST_ERR_INVALID}
        /\ (size > 0 /\ i = size - 1) => GetSetStatus(i, v) = {LIST_OK}

\* A set refused as out of bounds at an index the capacity has room for.
C5_Witness ==
    /\ op = "set"
    /\ status = LIST_OUT_OF_BOUNDS
    /\ size > 0
    /\ size + 1 < capacity

\* The calls the shrink rule is about.
ListOps == {"push", "pop", "peek", "get", "set", "clear"}

\* C6: over push, pop, peek, get, set and clear the capacity decreases only
\* in a pop, only when capacity > 1 and the decremented size is below
\* capacity / 4, and then to capacity / 2; and once a buffer is allocated
\* these calls never bring the capacity below 1.
C6_ShrinkRule ==
    [][op' \in ListOps =>
         /\ capacity' < capacity =>
              /\ op' = "pop"
              /\ capacity > 1
              /\ size' = size - 1
              /\ size' < capacity \div 4
              /\ capacity' = capacity \div 2
         /\ data # NULL => capacity' >= 1]_vars

\* A pop has halved the capacity around a live element.
C6_Witness ==
    /\ op = "pop"
    /\ status = LIST_OK
    /\ capacity < pre_capacity
    /\ size = 1

\* C7: a push whose growth reallocation fails returns LIST_ERR_ALLOC and
\* leaves size, capacity, the buffer and every element as they were; a push
\* made after it succeeds when the allocator grants the request.
C7_FailedPushAtomic ==
    \A v \in Values(elem_size), junk \in GrowJunk(lst), ok \in BOOLEAN :
        LET r == list_push(LST, lst, v, ok, junk)
        IN  /\ (size >= capacity /\ ~ok) => r.st = LIST_ERR_ALLOC
            /\ r.st # LIST_OK => r = Ret(LIST_ERR_ALLOC, lst)
            /\ (op = "push" /\ status = LIST_ERR_ALLOC /\ ok
                  /\ GrowCapacity(lst) * elem_size <= heap_max)
                  => r.st = LIST_OK

\* A push has failed on a full list that holds a non-zero element.
C7_Witness ==
    /\ op = "push"
    /\ status = LIST_ERR_ALLOC
    /\ size = capacity
    /\ size >= 2
    /\ \E i \in 1..Len(mem) : mem[i] = 1

\* The bytes of element j.
Slot(m, es, j) == SubSeq(m, j * es + 1, (j + 1) * es)

\* C8: a pop whose shrink reallocation fails returns LIST_ERR_ALLOC with
\* size decremented by 1, out_value (if supplied) holding the removed
\* element, and capacity and the remaining elements unchanged.
C8_PopNotRolledBack ==
    [][\A o \in OutPointers, ok \in BOOLEAN :
         (op' = "pop" /\ status' = LIST_ERR_ALLOC /\ Pop(o, ok))
             => /\ size' = size - 1
                /\ o # NULL => out' = Slot(mem, elem_size, size - 1)
                /\ capacity' = capacity
                /\ data' = data
                /\ \A j \in 0..(size' - 1) :
                      Slot(mem', elem_size', j) = Slot(mem, elem_size, j)]_vars

\* A pop has failed to shrink: it handed out a non-zero element and left
\* one behind.
C8_Witness ==
    /\ op = "pop"
    /\ status = LIST_ERR_ALLOC
    /\ out = <<1>>
    /\ size = 1
    /\ size = pre_size - 1

\* C9: pop on an empty list, with or without a buffer, returns
\* LIST_ERR_INVALID and leaves size, capacity, buffer and out_value unchanged.
C9_PopEmpty ==
    [][\A o \in OutPointers, ok \in BOOLEAN :
         (size = 0 /\ Pop(o, ok))
             => /\ status' = LIST_ERR_INVALID
                /\ out' = Untouched
                /\ UNCHANGED <<data, mem, size, capacity, elem_size>>]_vars

\* A pop refused on an empty list that has a buffer.
C9_Witness ==
    /\ op = "pop"
    /\ status = LIST_ERR_INVALID
    /\ size = 0
    /\ data = BLOCK
    /\ capacity > 1

\* Every byte of element slot j is zero.
ZeroSlot(m, es, j) == \A i \in (j * es + 1)..((j + 1) * es) : m[i] = 0

\* The bytes at the element offsets [size, capacity) are zero.
ZeroTail == \A j \in size..(capacity - 1) : ZeroSlot(mem, elem_size, j)

Succeeded == status \in {LIST_OK, VOID}

\* C10 as stated: after every call that returns successfully the bytes at
\* the element offsets [size, capacity) are zero.
C10_ZeroTailAsStated == Succeeded => ZeroTail

\* C10, amended: a slot in [size, capacity) is zero unless it holds the bytes
\* of an element that pop or clear removed: an initialiser leaves every slot
\* zero, and each later call leaves zero every slot of [size, capacity) that
\* it has newly allocated or that was a zero slot of [size, capacity) before.
C10_ZeroTail ==
    /\ ZeroTail
    /\ [][/\ (op' \in {"init", "init_with_capacity"} /\ status' = LIST_OK) => ZeroTail'
          /\ op' \in ListOps =>
               \A j \in size'..(capacity' - 1) :
                  (j >= capacity \/ (j >= size /\ ZeroSlot(mem, elem_size, j)))
                      => ZeroSlot(mem', elem_size', j)]_vars

\* A push has grown the buffer of a list that a pop had left with stale
\* bytes, and the slots the growth added are free.
C10_Witness ==
    /\ op = "push"
    /\ status = LIST_OK
    /\ pre_capacity >= 2
    /\ capacity > pre_capacity
    /\ size + 1 < capacity

\* C11: clear sets size to 0 and leaves the capacity, the buffer, its bytes
\* and the element width as they were, and neither allocates nor releases.
C11_ClearPreservesCapacity ==
    [][Clear => /\ size' = 0
                /\ UNCHANGED <<capacity, data, mem, elem_size>>
                /\ allocs' = 0
                /\ frees' = 0]_vars

\* A clear has emptied a list of two elements or more, whose bytes, not all
\* zero, are still in the buffer.
C11_Witness ==
    /\ op = "clear"
    /\ pre_size >= 2
    /\ size = 0
    /\ capacity = pre_capacity
    /\ \E i \in 1..Len(mem) : mem[i] = 1

\* The fields of struct list and the bytes behind data.
ListState == <<data, mem, size, capacity, elem_size>>

\* C12: set called with a missing target, a missing buffer or a missing
\* value block returns LIST_ERR_INVALID at every index, without reading
\* through the missing argument and without modifying the list.
C12_SetValidatesArguments ==
    [][\A i \in Indexes(size), v \in ValueArgs :
         /\ list_set(NULL, lst, i, v) = Ret(LIST_ERR_INVALID, lst)
         /\ (Set(i, v) /\ (data = NULL \/ v = NoValue))
               => /\ status' = LIST_ERR_INVALID
                  /\ UNCHANGED ListState]_vars

\* C13: no call faults on a null lst: the initialisers, push, pop, peek, get
\* and set return LIST_ERR_INVALID, list_size and list_capacity return 0,
\* destroy and clear return; the list a null lst is not pointing to is left
\* alone.
C13_NullTargetNeverFaults ==
    /\ list_size(NULL, lst) = 0
    /\ list_capacity(NULL, lst) = 0
    /\ [][\A name \in Calls :
            NullTarget(name)
              => /\ status' = IF name \in {"destroy", "clear"} THEN VOID
                                ELSE LIST_ERR_INVALID
                 /\ UNCHANGED ListState]_vars

\* Every byte of the block is zero.
ZeroFilled(m) == \A i \in 1..Len(m) : m[i] = 0

\* What C14 says of an initialiser call that asked for cap elements of es
\* bytes and returned r.
InitEstablishes(r, cap, es) ==
    /\ es = 0 => r.st = LIST_ERR_INVALID
    /\ r.st = LIST_OK =>
          /\ r.l.size = 0
          /\ r.l.capacity = cap
          /\ r.l.elem_size = es
          /\ cap = 0 => (r.l.data = NULL /\ r.l.allocs = 0)
          /\ cap > 0 => /\ r.l.data # NULL
                        /\ Len(r.l.mem) = cap * es
                        /\ ZeroFilled(r.l.mem)

\* C14: an initialiser that returns LIST_OK leaves size 0, the capacity
\* asked for, the element width passed, and a buffer that is absent, with
\* nothing allocated, when the capacity asked for is 0 and zero-filled
\* otherwise; with elem_size 0 it returns LIST_ERR_INVALID.
C14_InitEstablishes ==
    /\ \A es \in 0..MaxElemSize :
          InitEstablishes(list_init(LST, lst, es), 0, es)
    /\ \A cap \in 0..MaxInitCapacity, es \in 0..MaxElemSize, ok \in BOOLEAN :
          InitEstablishes(list_init_with_capacity(LST, lst, cap, es, ok), cap, es)

\* An initialiser has given a list that held elements a zero-filled buffer of
\* another capacity.
C14_Witness ==
    /\ op = "init_with_capacity"
    /\ status = LIST_OK
    /\ pre_size >= 2
    /\ capacity = 3
    /\ capacity # pre_capacity
    /\ elem_size = 2
    /\ size = 0
    /\ Len(mem) = 6
    /\ ZeroFilled(mem)


\* The initialiser calls from the current state: all that list_init and
\* list_init_with_capacity can return.
InitCalls ==
    {list_init(LST, lst, es) : es \in 0..MaxElemSize}
    \cup {list_init_with_capacity(LST, lst, cap, es, ok) :
             cap \in 0..MaxInitCapacity, es \in 0..MaxElemSize, ok \in BOOLEAN}

\* C15 as stated: an initialiser that returns LIST_ERR_INVALID or
\* LIST_ERR_ALLOC leaves data, size, capacity and elem_size as they were.
C15_FailedInitUnchangedAsStated ==
    \A r \in InitCalls :
        r.st \in {LIST_ERR_INVALID, LIST_ERR_ALLOC}
            => /\ r.l.data = data
               /\ r.l.size = size
               /\ r.l.capacity = capacity
               /\ r.l.elem_size = elem_size

\* C15, amended: an initialiser that returns LIST_ERR_INVALID leaves data,
\* size, capacity and elem_size as they were; list_init_with_capacity
\* returning LIST_ERR_ALLOC has reset the object: no buffer, size 0,
\* capacity 0, and the element width it was passed.
C15_FailedInit ==
    /\ \A r \in InitCalls :
          r.st = LIST_ERR_INVALID
              => /\ r.l.data = data
                 /\ r.l.size = size
                 /\ r.l.capacity = capacity
                 /\ r.l.elem_size = elem_size
    /\ \A cap \in 0..MaxInitCapacity, es \in 0..MaxElemSize, ok \in BOOLEAN :
          LET r == list_init_with_capacity(LST, lst, cap, es, ok)
          IN  r.st = LIST_ERR_ALLOC
                  => /\ r.l.data = NULL
                     /\ r.l.size = 0
                     /\ r.l.capacity = 0
                     /\ r.l.elem_size = es

\* An initialiser has failed to allocate on a list that held elements of
\* another width, and left it empty.
C15_Witness ==
    /\ op = "init_with_capacity"
    /\ status = LIST_ERR_ALLOC
    /\ pre_size >= 1
    /\ pre_capacity >= 1
    /\ Len(items) = 0
    /\ data = NULL
    /\ size = 0
    /\ capacity = 0
    /\ elem_size = 2


\* C16: in one object's life every block the allocator hands out is released
\* exactly once, by a reallocation or by destroy: a call releases no block
\* but the one the list holds, and after it the list holds a block exactly
\* when the blocks handed out and not yet released come to one; destroy
\* releases the buffer if there is one and leaves size 0, capacity 0 and no
\* buffer; destroy on a list with no buffer, a destroyed one among them,
\* releases nothing and changes nothing.
C16_TeardownReleasesOnce ==
    /\ Freed(data) = allocs - frees
    /\ [][/\ frees' <= Freed(data)
          /\ Freed(data') = Freed(data) + allocs' - frees'
          /\ op' = "destroy" =>
               /\ allocs' = 0
               /\ frees' = Freed(data)
               /\ size' = 0
               /\ capacity' = 0
               /\ data' = NULL
               /\ data = NULL => UNCHANGED ListState]_vars

\* A destroy has released a buffer that pushes had reallocated.
C16_Witness ==
    /\ op = "destroy"
    /\ frees = 1
    /\ pre_size = 3
    /\ pre_capacity = 4
    /\ data = NULL
    /\ capacity = 0


\* C17: a set(index, value) that returns LIST_OK makes get(index) yield value
\* and leaves size, capacity, the buffer reference and every element at
\* another index as they were; a set that returns LIST_OUT_OF_BOUNDS or
\* LIST_ERR_INVALID changes nothing, whether or not index < capacity.
C17_SetOverwritesLiveOnly ==
    \A i \in Indexes(size), v \in ValueArgs :
        LET r == list_set(LST, lst, i, v)
        IN  /\ r.st = LIST_OK =>
                 /\ i < size
                 /\ list_get(LST, r.l, i, OUT) = RetOut(LIST_OK, r.l, v)
                 /\ r.l.size = size
                 /\ r.l.capacity = capacity
                 /\ r.l.data = data
                 /\ r.l.elem_size = elem_size
                 /\ Len(r.l.mem) = Len(mem)
                 /\ \A j \in 0..(capacity - 1) :
                       j # i => Slot(r.l.mem, elem_size, j) = Slot(mem, elem_size, j)
            /\ r.st \in {LIST_OUT_OF_BOUNDS, LIST_ERR_INVALID} =>
                 /\ r.l.size = size
                 /\ r.l.capacity = capacity
                 /\ r.l.data = data
                 /\ r.l.elem_size = elem_size
                 /\ r.l.mem = mem

\* A set has overwritten one of three live elements that are not all alike,
\* in a buffer with room for more.
C17_Witness ==
    /\ op = "set"
    /\ status = LIST_OK
    /\ size = 3
    /\ capacity = 4
    /\ items = << <<0>>, <<1>>, <<0>> >>


\* The last call was a push that grew the buffer, a pop that shrank it.
PushGrew == op = "push" /\ status = LIST_OK /\ capacity > pre_capacity
PopShrank == op = "pop" /\ status = LIST_OK /\ capacity < pre_capacity

\* A pop right after a push that grew the buffer does not reallocate, and a
\* push right after a pop that shrank it does not either, whatever the
\* allocator would have answered.
NoOscillation ==
    /\ PushGrew =>
          \A o \in OutPointers, ok \in BOOLEAN :
              LET r == list_pop(LST, lst, o, ok)
              IN  r.st = LIST_OK /\ r.l.capacity = capacity /\ r.l.allocs = 0
    /\ PopShrank =>
          \A v \in Values(elem_size), ok \in BOOLEAN, junk \in GrowJunk(lst) :
              LET r == list_push(LST, lst, v, ok, junk)
              IN  r.st = LIST_OK /\ r.l.capacity = capacity /\ r.l.allocs = 0

\* Bytes for realloc to leave in the fresh part of a block, where only the
\* capacities and the number of reallocations are looked at and the bytes
\* play no part.
AnyJunk == [i \in 1..heap_max |-> 0]

\* The calls an alternating run is made of, with an allocator that grants
\* what fits the heap.
AltCall(name, l, v) ==
    IF name = "push" THEN list_push(LST, l, v, TRUE, AnyJunk).l
    ELSE list_pop(LST, l, OUT, TRUE).l

Other(name) == IF name = "push" THEN "pop" ELSE "push"

\* The list before and after each of four alternating calls made from the
\* current state, `first` the first of them; the allocator's tally runs on
\* through the calls.
AltRun(first, v) ==
    LET l1 == AltCall(first, lst, v)
        l2 == AltCall(Other(first), l1, v)
        l3 == AltCall(first, l2, v)
        l4 == AltCall(Other(first), l3, v)
    IN  <<lst, l1, l2, l3, l4>>

Grows(ls) == \E k \in 1..(Len(ls) - 1) : ls[k + 1].capacity > ls[k].capacity
Shrinks(ls) == \E k \in 1..(Len(ls) - 1) : ls[k + 1].capacity < ls[k].capacity

\* C18 as stated: a pop right after a push that grew never shrinks, a push
\* right after a pop that shrank never grows, and alternating push and pop
\* from any state reallocates at most once in total.
C18_NoOscillationAsStated ==
    /\ NoOscillation
    /\ \A first \in {"push", "pop"}, v \in Values(elem_size) :
          AltRun(first, v)[5].allocs <= 1

\* C18, amended: a pop right after a push that grew the buffer never
\* shrinks it and a push right after a pop that shrank it never grows it;
\* alternating push and pop never both grows and shrinks the buffer, but it
\* can reallocate more than once, shrinking each time.
C18_NoOscillation ==
    /\ NoOscillation
    /\ \A first \in {"push", "pop"}, v \in Values(elem_size) :
          LET ls == AltRun(first, v)
          IN  /\ ~(Grows(ls) /\ Shrinks(ls))
              /\ Grows(ls) => ls[5].allocs = 1

\* A pop has just halved a buffer that still holds an element.
C18_Witness ==
    /\ PopShrank
    /\ capacity = 4
    /\ size = 1


\* The size clamp of list_resize is taken: the list holds more elements than
\* the capacity asked for.
ClampTaken(l, new_capacity) == l.size > new_capacity

\* C19: whenever pop calls resize the capacity asked for is >= 1 and above
\* the size, so the size clamp is not taken and the pop leaves every element
\* below the new size as it was, whether the reallocation succeeds or not;
\* the resize a push calls does not take the clamp either.
C19_ShrinkKeepsLiveElements ==
    /\ (data # NULL /\ size > 0) =>
          LET l1 == [lst EXCEPT !.size = @ - 1]
          IN  ShrinkNeeded(l1) =>
                 /\ ShrinkCapacity(l1) >= 1
                 /\ ShrinkCapacity(l1) > l1.size
                 /\ ~ClampTaken(l1, ShrinkCapacity(l1))
                 /\ \A o \in OutPointers, ok \in BOOLEAN :
                       LET r == list_pop(LST, lst, o, ok)
                       IN  /\ r.l.size = size - 1
                           /\ r.l.size <= r.l.capacity
                           /\ \A j \in 0..(size - 2) :
                                 Slot(r.l.mem, elem_size, j) = Slot(mem, elem_size, j)
    /\ size >= capacity => ~ClampTaken(lst, GrowCapacity(lst))

\* A pop has halved the buffer around the one element left, which is as it
\* was pushed.
C19_Witness ==
    /\ PopShrank
    /\ pre_capacity = 8
    /\ pre_size = 2
    /\ items = << <<1>> >>
    /\ Slot(mem, elem_size, 0) = <<1>>


\* Capacities above the current one that fit the heap, up to one more than
\* the double that list_grow asks for.
LargerCapacities ==
    {n \in (capacity + 1)..(2 * capacity + 1) : n * elem_size <= heap_max}

\* C20: when resize grows the buffer from the old capacity to new_capacity
\* and returns LIST_OK, every byte of the slots [old capacity, new_capacity)
\* is zero, whatever realloc left there, and the bytes of the slots
\* [0, old capacity) are what they were.
C20_GrowthZeroFilled ==
    \A n \in LargerCapacities :
        \A junk \in Indeterminate(Len(mem), n * elem_size) :
            LET r == list_resize(lst, n, TRUE, junk)
            IN  /\ r.st = LIST_OK
                /\ r.l.capacity = n
                /\ Len(r.l.mem) = n * elem_size
                /\ \A j \in capacity..(n - 1) : ZeroSlot(r.l.mem, elem_size, j)
                /\ \A j \in 0..(capacity - 1) :
                      Slot(r.l.mem, elem_size, j) = Slot(mem, elem_size, j)

\* A push has doubled a full buffer of two-byte elements: the old elements
\* are in place and the slot past the new one is zero.
C20_Witness ==
    /\ PushGrew
    /\ elem_size = 2
    /\ pre_capacity = 2
    /\ capacity = 4
    /\ size = 3
    /\ items[1] = <<1, 1>>
    /\ Slot(mem, elem_size, 0) = <<1, 1>>
    /\ ZeroSlot(mem, elem_size, 3)


\* The last element of a non-empty sequence.
Last(s) == s[Len(s)]

\* C21: the list refines the reference sequence `items` (append on a push
\* that returns LIST_OK and nothing on one that fails, remove-last on a pop
\* that returns LIST_OK or LIST_ERR_ALLOC, update on a set, empty on clear):
\* size is its length, get(i) succeeds exactly on its indexes and yields
\* its i-th element, peek yields its last element, and pop yields its last
\* element and leaves one element fewer, also when the shrink fails; bytes
\* of removed elements are not among the results.
C21_RefinesSequence ==
    /\ size = Len(items)
    /\ \A i \in Indexes(size) :
          LET r == list_get(LST, lst, i, OUT)
          IN  /\ (r.st = LIST_OK) <=> (i < Len(items))
              /\ r.st = LIST_OK => r.out = items[i + 1]
    /\ LET r == list_peek(LST, lst, OUT)
       IN  /\ (r.st = LIST_OK) <=> (Len(items) > 0)
           /\ r.st = LIST_OK => r.out = Last(items)
    /\ \A ok \in BOOLEAN :
          LET r == list_pop(LST, lst, OUT, ok)
          IN  /\ (r.st \in {LIST_OK, LIST_ERR_ALLOC}) <=> (Len(items) > 0)
              /\ r.st \in {LIST_OK, LIST_ERR_ALLOC} =>
                    /\ r.out = Last(items)
                    /\ r.l.size = Len(items) - 1

\* A peek has returned the last of two two-byte elements while the slot
\* past them still holds the bytes of a removed element.
C21_Witness ==
    /\ op = "peek"
    /\ status = LIST_OK
    /\ items = << <<1, 0>>, <<0, 1>> >>
    /\ out = <<0, 1>>
    /\ capacity > size
    /\ Slot(mem, elem_size, size) = <<1, 1>>


\* C22: the block holds exactly capacity * elem_size bytes, and every byte
\* range that resize zeroes and that push, pop, get and set copy to or from
\* lies inside it, with capacity * 2 and new_capacity * elem_size computed
\* modulo SizeMod.
C22_AccessesInsideBlock ==
    /\ status # OVERRUN
    /\ Len(mem) = capacity * elem_size
    /\ \A i \in 0..(size - 1) : InBlock(mem, SizeT(i * elem_size), elem_size)
    /\ size < capacity => InBlock(mem, SizeT(size * elem_size), elem_size)

====
